---- MODULE Spec2Model ----
(***************************************************************************)
(* compute_sales.py: price-catalogue derivation (generate_price_catalogue), *)
(* multi-file sales aggregation (compute_total_sales) and the run of main.  *)
(*                                                                         *)
(* Money is modelled in integer units (prices are whole numbers); the      *)
(* rounding of Python floats is not modelled.  A JSON object is a TLA+      *)
(* record whose DOMAIN is the set of keys it has; a JSON array is a         *)
(* sequence; a Python dict that keeps insertion order is a sequence of      *)
(* <<key, value>> pairs.  A JSON document on disk is modelled as text: an  *)
(* array of objects, each object the sequence of its <<key, value>> members *)
(* in the order written.  A file is a record [exists, valid, data]: whether *)
(* a file is at the path, whether json.load accepts it, and its array.      *)
(***************************************************************************)
EXTENDS Integers, Sequences, FiniteSets, TLC

VARIABLES
    productFile,        \* the file named by sys.argv[1]
    salesFiles,         \* the files named by sys.argv[2:], in order
    cacheFile,          \* priceCatalogue.json
    resultsFile,        \* SalesResults.txt
    argc,               \* len(sys.argv)
    product_catalogue,  \* what generate_price_catalogue returned / the 1st parameter
    sales_data_list,    \* the 2nd parameter of compute_total_sales
    total_sales_data,   \* what compute_total_sales returned
    warnings,           \* the products named by the "Warning:" lines printed
    raised,             \* whether the last call ended by an exception
    productListRead,    \* whether the last call loaded the product list file
    exitStatus,         \* the exit status of the last run of main, -1 before any
    calls               \* how many calls (runs) have completed

vars == <<productFile, salesFiles, cacheFile, resultsFile, argc,
          product_catalogue, sales_data_list, total_sales_data, warnings,
          raised, productListRead, exitStatus, calls>>

-----------------------------------------------------------------------------
(* Bounds of the model *)

\* the longest product list and the longest catalogue
MaxProducts == 2
\* the most sales collections (sales files) of one call
MaxFiles == 2
\* the most sale records of one call, over all its collections
MaxRecords == 2
\* the most successive calls (runs) of one behaviour
MaxCalls == 2

-----------------------------------------------------------------------------
(* Input pools *)

\* dict.get's default when the key is absent and no default is given
None == "<None>"

\* json.load of one object: a dict of its keys, the last member of a key
\* giving its value
ParseObject(members) ==
    [k \in { members[i][1] : i \in DOMAIN members } |->
        members[CHOOSE i \in DOMAIN members :
                  /\ members[i][1] = k
                  /\ \A j \in DOMAIN members : members[j][1] = k => j <= i][2]]

\* json.load of an array of objects
ParseArray(data) == [i \in DOMAIN data |-> ParseObject(data[i])]

\* the objects of product list files (and of catalogue files found on disk):
\* one with a further field, one with price written before title
ProductObjects ==
    { << <<"title", "A">>, <<"price", 3>>, <<"stock", 7>> >>,
      << <<"price", 5>>, <<"title", "A">> >> }

\* the entries of the catalogues passed to compute_total_sales: a title with
\* two prices, and a second title
CatalogueEntries ==
    { [title |-> "A", price |-> 3],
      [title |-> "A", price |-> 5],
      [title |-> "B", price |-> 4] }

\* the objects of sales files: a priced product, a negative quantity, no
\* Quantity field, a product no catalogue has, no Product field
SaleObjects ==
    { << <<"Product", "A">>, <<"Quantity", 2>> >>,
      << <<"Product", "B">>, <<"Quantity", -1>> >>,
      << <<"Product", "A">> >>,
      << <<"Product", "G">>, <<"Quantity", 5>> >>,
      << <<"Quantity", 2>> >> }

\* the sale records passed to compute_total_sales
SaleRecords == { ParseObject(o) : o \in SaleObjects }

SeqsUpTo(S, n) == UNION { [1..k -> S] : k \in 0..n }

RECURSIVE SumSeq(_)
SumSeq(s) == IF s = <<>> THEN 0 ELSE Head(s) + SumSeq(Tail(s))

\* the records flat[from+1 .. from+n]
Slice(flat, from, n) == [i \in 1..n |-> flat[from + i]]

\* flat cut into collections of the given sizes
Split(flat, sizes) ==
    [k \in 1..Len(sizes) |-> Slice(flat, SumSeq(SubSeq(sizes, 1, k - 1)), sizes[k])]

\* every ordered sequence of at most MaxFiles collections holding at most
\* MaxRecords records in all (zero collections and empty collections included)
SalesInputs ==
    { Split(flat, sizes) :
        <<flat, sizes>> \in
            { p \in SeqsUpTo(SaleRecords, MaxRecords) \X SeqsUpTo(0..MaxRecords, MaxFiles) :
                SumSeq(p[2]) = Len(p[1]) } }

-----------------------------------------------------------------------------
(* Files *)

Missing == [exists |-> FALSE, valid |-> FALSE, data |-> <<>>]
Invalid == [exists |-> TRUE, valid |-> FALSE, data |-> <<>>]
JsonFile(d) == [exists |-> TRUE, valid |-> TRUE, data |-> d]

\* lines 10-23: the parsed array, or [] on FileNotFoundError / JSONDecodeError
load_json_file(file) ==
    IF file.exists /\ file.valid THEN ParseArray(file.data) ELSE <<>>

\* every file a path can name whose array has at most n of the objects
FilesOf(objects, n) ==
    {Missing, Invalid} \cup { JsonFile(a) : a \in SeqsUpTo(objects, n) }

-----------------------------------------------------------------------------
(* SalesResults.txt: whether it is there and the lines it holds *)

NoFile == [exists |-> FALSE, text |-> <<>>]
TextFile(lines) == [exists |-> TRUE, text |-> lines]

-----------------------------------------------------------------------------
(* Python dict primitives *)

\* d.get(key, default)
Get(d, key, default) == IF key \in DOMAIN d THEN d[key] ELSE default

DictKeys(d) == { d[i][1] : i \in DOMAIN d }

\* d[key] = value on an insertion-ordered dict: an existing key keeps its
\* place and takes the new value, a new key goes last
DictSet(d, key, value) ==
    IF key \in DictKeys(d)
    THEN [i \in DOMAIN d |-> IF d[i][1] = key THEN <<key, value>> ELSE d[i]]
    ELSE Append(d, <<key, value>>)

\* d[key], for a key d has
DictGet(d, key) == d[CHOOSE i \in DOMAIN d : d[i][1] = key][2]

-----------------------------------------------------------------------------
(* generate_price_catalogue *)

\* a slip of line 40: the whole item is kept
Project_Whole(item) == item

\* line 40: the projection of one product
Project(item) == [title |-> item["title"], price |-> item["price"]]

\* json.dump of a dict built as {"title": ..., "price": ...}: its members in
\* insertion order
DumpEntry(entry) == << <<"title", entry["title"]>>, <<"price", entry["price"]>> >>

\* line 45: json.dump of the catalogue list
DumpCatalogue(catalogue_data) ==
    [i \in DOMAIN catalogue_data |-> DumpEntry(catalogue_data[i])]

\* a slip of lines 31-32: the catalogue is derived again though a cache exists
generate_price_catalogue_Rederive(product_list_file, catalogue_file) ==
    LET product_list == load_json_file(product_list_file)
        catalogue_data == [i \in DOMAIN product_list |-> Project(product_list[i])]
    IN  IF product_list = <<>>
        THEN [ ret |-> load_json_file(catalogue_file), cache |-> catalogue_file,
               read |-> TRUE ]
        ELSE [ ret |-> catalogue_data,
               cache |-> JsonFile(DumpCatalogue(catalogue_data)),
               read |-> TRUE ]

\* a slip of lines 31-32: a cache that loads empty is derived again
generate_price_catalogue_Fallback(product_list_file, catalogue_file) ==
    LET product_list == load_json_file(product_list_file)
        catalogue_data == [i \in DOMAIN product_list |-> Project(product_list[i])]
    IN  IF load_json_file(catalogue_file) # <<>>
        THEN [ ret |-> load_json_file(catalogue_file), cache |-> catalogue_file,
               read |-> FALSE ]
        ELSE IF product_list = <<>>
        THEN [ ret |-> <<>>, cache |-> catalogue_file, read |-> TRUE ]
        ELSE [ ret |-> catalogue_data,
               cache |-> JsonFile(DumpCatalogue(catalogue_data)),
               read |-> TRUE ]

\* lines 26-51.  ret is the list returned, cache the catalogue file after the
\* call, read whether the product list file was loaded.
generate_price_catalogue(product_list_file, catalogue_file) ==
    IF catalogue_file.exists
    THEN [ ret |-> load_json_file(catalogue_file), cache |-> catalogue_file,
           read |-> FALSE ]
    ELSE LET product_list == load_json_file(product_list_file)
             catalogue_data == [i \in DOMAIN product_list |-> Project(product_list[i])]
         IN  IF product_list = <<>>
             THEN [ ret |-> <<>>, cache |-> catalogue_file, read |-> TRUE ]
             ELSE [ ret |-> catalogue_data,
                    cache |-> JsonFile(DumpCatalogue(catalogue_data)),
                    read |-> TRUE ]

\* every catalogue list of at most MaxProducts entries (repeated titles included)
Catalogues == SeqsUpTo(CatalogueEntries, MaxProducts)

-----------------------------------------------------------------------------
(* compute_total_sales *)

\* a slip of lines 59-62: the first entry of a title keeps its price
RECURSIVE product_prices_First(_)
product_prices_First(catalogue) ==
    IF catalogue = <<>>
    THEN <<>>
    ELSE LET n == Len(catalogue)
             rest == product_prices_First(SubSeq(catalogue, 1, n - 1))
         IN  IF catalogue[n]["title"] \in DictKeys(rest)
             THEN rest
             ELSE Append(rest, <<catalogue[n]["title"], catalogue[n]["price"]>>)

\* lines 59-62, the dict comprehension: a later entry of a title replaces
\* the price an earlier entry of that title gave
RECURSIVE product_prices(_)
product_prices(catalogue) ==
    IF catalogue = <<>>
    THEN <<>>
    ELSE LET n == Len(catalogue)
             rest == product_prices(SubSeq(catalogue, 1, n - 1))
         IN  DictSet(rest, catalogue[n]["title"], catalogue[n]["price"])

\* line 81, the f-string "Sales File {idx}"
Label_NoIndex(idx) == "Sales File"

Label(idx) == "Sales File " \o ToString(idx)

\* line 84, the key of the combined total
CombinedLabel == "Total Combined Sales"

\* The state of the loops: the dict built so far, the two running totals,
\* the warnings printed so far, and whether an exception has ended the call.
LoopStart ==
    [ total_sales_per_file |-> <<>>, total_combined_sales |-> 0,
      total_sales |-> 0, warnings |-> <<>>, raised |-> FALSE ]

\* a slip of lines 70-79: sale["Product"] instead of sale.get("Product"),
\* which raises KeyError on a record without the field
ProcessSale_Index(prices, st, sale) ==
    IF "Product" \notin DOMAIN sale
    THEN [st EXCEPT !.raised = TRUE]
    ELSE LET product_name == sale["Product"]
             quantity == Get(sale, "Quantity", 0)
         IN  IF product_name \in DictKeys(prices)
             THEN [st EXCEPT !.total_sales = @ + DictGet(prices, product_name) * quantity]
             ELSE [st EXCEPT !.warnings = Append(@, product_name)]

\* a slip of line 74: -= instead of +=
ProcessSale_Minus(prices, st, sale) ==
    LET product_name == Get(sale, "Product", None)
        quantity == Get(sale, "Quantity", 0)
    IN  IF product_name \in DictKeys(prices)
        THEN [st EXCEPT !.total_sales = @ - DictGet(prices, product_name) * quantity]
        ELSE [st EXCEPT !.warnings = Append(@, product_name)]

\* lines 70-79, the body of the inner loop for one sale record
ProcessSale(prices, st, sale) ==
    LET product_name == Get(sale, "Product", None)
        quantity == Get(sale, "Quantity", 0)
    IN  IF product_name \in DictKeys(prices)
        THEN [st EXCEPT !.total_sales = @ + DictGet(prices, product_name) * quantity]
        ELSE [st EXCEPT !.warnings = Append(@, product_name)]

\* lines 69-79, the inner loop over sales_data[i..]; an exception ends it
RECURSIVE InnerLoop(_, _, _, _)
InnerLoop(prices, st, sales_data, i) ==
    IF i > Len(sales_data) \/ st.raised
    THEN st
    ELSE InnerLoop(prices, ProcessSale(prices, st, sales_data[i]), sales_data, i + 1)

\* a slip of line 68: total_sales is not reset for the next file
ProcessFile_NoReset(prices, st, idx, sales_data) ==
    LET after == InnerLoop(prices, st, sales_data, 1)
    IN  IF after.raised
        THEN after
        ELSE [after EXCEPT
                !.total_sales_per_file = DictSet(@, Label(idx), after.total_sales),
                !.total_combined_sales = @ + after.total_sales]

\* a slip of line 82: = instead of +=
ProcessFile_Assign(prices, st, idx, sales_data) ==
    LET after == InnerLoop(prices, [st EXCEPT !.total_sales = 0], sales_data, 1)
    IN  IF after.raised
        THEN after
        ELSE [after EXCEPT
                !.total_sales_per_file = DictSet(@, Label(idx), after.total_sales),
                !.total_combined_sales = after.total_sales]

\* lines 68-82, the body of the outer loop for the idx-th collection
ProcessFile(prices, st, idx, sales_data) ==
    LET after == InnerLoop(prices, [st EXCEPT !.total_sales = 0], sales_data, 1)
    IN  IF after.raised
        THEN after
        ELSE [after EXCEPT
                !.total_sales_per_file = DictSet(@, Label(idx), after.total_sales),
                !.total_combined_sales = @ + after.total_sales]

\* lines 67-82, the outer loop over sales_data_list[idx..], idx from 1
RECURSIVE OuterLoop(_, _, _, _)
OuterLoop(prices, st, list, idx) ==
    IF idx > Len(list) \/ st.raised
    THEN st
    ELSE OuterLoop(prices, ProcessFile(prices, st, idx, list[idx]), list, idx + 1)

\* lines 54-85: ret is the dict returned (<<>> when the call raised)
compute_total_sales(catalogue, list) ==
    LET prices == product_prices(catalogue)
        fin == OuterLoop(prices, LoopStart, list, 1)
    IN  [ ret |-> IF fin.raised
                  THEN <<>>
                  ELSE DictSet(fin.total_sales_per_file, CombinedLabel,
                               fin.total_combined_sales),
          warnings |-> fin.warnings,
          raised |-> fin.raised ]

-----------------------------------------------------------------------------
(* The call of compute_total_sales on every catalogue and every input *)

InitSales ==
    /\ product_catalogue \in Catalogues
    /\ sales_data_list \in SalesInputs
    /\ productFile = Missing
    /\ salesFiles = <<>>
    /\ cacheFile = Missing
    /\ resultsFile = NoFile
    /\ argc = 1
    /\ total_sales_data = <<>>
    /\ warnings = <<>>
    /\ raised = FALSE
    /\ productListRead = FALSE
    /\ exitStatus = -1
    /\ calls = 0

ComputeTotalSales ==
    /\ calls = 0
    /\ LET r == compute_total_sales(product_catalogue, sales_data_list)
       IN  /\ total_sales_data' = r.ret
           /\ warnings' = r.warnings
           /\ raised' = r.raised
    /\ calls' = 1
    /\ UNCHANGED <<productFile, salesFiles, cacheFile, resultsFile, argc,
                   product_catalogue, sales_data_list, productListRead, exitStatus>>

NextSales == ComputeTotalSales

SpecSales == InitSales /\ [][NextSales]_vars
-----------------------------------------------------------------------------
(* What the claims about compute_total_sales speak of *)

\* compute_total_sales has returned (or raised)
Returned == calls = 1

CatalogueTitles(catalogue) == { catalogue[i]["title"] : i \in DOMAIN catalogue }

\* the catalogue index of the last entry of a title
LastIndexOf(catalogue, t) ==
    CHOOSE i \in DOMAIN catalogue :
        /\ catalogue[i]["title"] = t
        /\ \A j \in DOMAIN catalogue : catalogue[j]["title"] = t => j <= i

\* the sale record names a title of the catalogue
Recognized(catalogue, sale) ==
    /\ "Product" \in DOMAIN sale
    /\ sale["Product"] \in CatalogueTitles(catalogue)

QuantityOf(sale) == IF "Quantity" \in DOMAIN sale THEN sale["Quantity"] ELSE 0

\* price(Product) * Quantity for a recognized record, 0 for any other
Amount(catalogue, sale) ==
    IF Recognized(catalogue, sale)
    THEN catalogue[LastIndexOf(catalogue, sale["Product"])]["price"] * QuantityOf(sale)
    ELSE 0

\* the sum of price * quantity over the recognized records of one collection
ExpectedTotal(catalogue, sales_data) ==
    SumSeq([i \in DOMAIN sales_data |-> Amount(catalogue, sales_data[i])])

\* the name a warning gives for an unrecognized record
WarnedName(sale) == IF "Product" \in DOMAIN sale THEN sale["Product"] ELSE None

RECURSIVE Flatten(_)
Flatten(list) == IF list = <<>> THEN <<>> ELSE Head(list) \o Flatten(Tail(list))

\* the unrecognized records of all collections, in the order they are met
Unrecognized(catalogue, list) ==
    LET IsNot(sale) == ~Recognized(catalogue, sale)
    IN  SelectSeq(Flatten(list), IsNot)

\* the input without its unrecognized records
OnlyRecognized(catalogue, list) ==
    LET Is(sale) == Recognized(catalogue, sale)
    IN  [k \in DOMAIN list |-> SelectSeq(list[k], Is)]

\* the catalogue without the entries a later entry of the same title shadows
LastEntriesOnly(catalogue) ==
    LET idx == { i \in DOMAIN catalogue : i = LastIndexOf(catalogue, catalogue[i]["title"]) }
        Keep(i) == i \in idx
        kept == SelectSeq([i \in DOMAIN catalogue |-> i], Keep)
    IN  [k \in DOMAIN kept |-> catalogue[kept[k]]]

NumFiles == Len(sales_data_list)

\* the labels the returned mapping is to have
SalesFileLabel(k) == "Sales File " \o ToString(k)
TotalLabel == "Total Combined Sales"

\* the value the returned mapping has under a label
ValueUnder(label) ==
    total_sales_data[CHOOSE i \in DOMAIN total_sales_data :
                        total_sales_data[i][1] = label][2]

HasFileTotals ==
    /\ \E i \in DOMAIN total_sales_data : total_sales_data[i][1] = TotalLabel
    /\ \A k \in 1..NumFiles :
          \E i \in DOMAIN total_sales_data : total_sales_data[i][1] = SalesFileLabel(k)

FileTotal(k) == ValueUnder(SalesFileLabel(k))

\* C1: once compute_total_sales has returned, the value under "Total Combined
\* Sales" equals the sum of the values under "Sales File 1" .. "Sales File n",
\* for every catalogue and every sequence of collections (none, empty ones).
C1_CombinedIsSumOfFiles ==
    Returned =>
        /\ HasFileTotals
        /\ ValueUnder(TotalLabel)
             = SumSeq([k \in 1..NumFiles |-> FileTotal(k)])

\* two collections with non-zero totals have been summed
C1_Witness ==
    /\ Returned
    /\ NumFiles = 2
    /\ HasFileTotals
    /\ FileTotal(1) # 0
    /\ FileTotal(2) # 0
    /\ ValueUnder(TotalLabel) = FileTotal(1) + FileTotal(2)

\* C2: the value under "Sales File n" is the sum of price(Product) * Quantity
\* over exactly the records of the n-th collection whose Product is a title of
\* the catalogue, Quantity counting 0 when the field is absent; the records of
\* the other collections have no part in it.
C2_FileTotalIsSumOfRecognized ==
    Returned =>
        /\ HasFileTotals
        /\ \A k \in 1..NumFiles :
              FileTotal(k) = ExpectedTotal(product_catalogue, sales_data_list[k])

\* a non-zero first total is followed by a collection whose recognized record
\* has no Quantity field
C2_Witness ==
    /\ Returned
    /\ NumFiles = 2
    /\ HasFileTotals
    /\ FileTotal(1) # 0
    /\ \E i \in DOMAIN sales_data_list[2] :
          /\ Recognized(product_catalogue, sales_data_list[2][i])
          /\ "Quantity" \notin DOMAIN sales_data_list[2][i]
    /\ FileTotal(2) = 0

\* C3: a record whose Product is missing or is no title of the catalogue never
\* raises: each such record prints exactly one warning, in the order met, it
\* adds 0 to its file's total, and the records and collections after it are
\* processed as if it were not there.
C3_UnrecognizedIsSkippedWithWarning ==
    Returned =>
        /\ ~raised
        /\ warnings = [i \in DOMAIN Unrecognized(product_catalogue, sales_data_list) |->
                          WarnedName(Unrecognized(product_catalogue, sales_data_list)[i])]
        /\ total_sales_data =
              compute_total_sales(product_catalogue,
                                  OnlyRecognized(product_catalogue, sales_data_list)).ret

\* a record without Product comes before a recognized record of the same
\* collection, which still counts
C3_Witness ==
    /\ Returned
    /\ ~raised
    /\ NumFiles >= 1
    /\ Len(sales_data_list[1]) = 2
    /\ "Product" \notin DOMAIN sales_data_list[1][1]
    /\ Recognized(product_catalogue, sales_data_list[1][2])
    /\ warnings = <<None>>
    /\ HasFileTotals
    /\ FileTotal(1) # 0

\* C4: for n collections the returned mapping has exactly n+1 entries, in the
\* order "Sales File 1", ..., "Sales File n" (the k-th carrying the total of
\* the k-th collection), then "Total Combined Sales".
C4_EntriesInFileOrder ==
    Returned =>
        /\ Len(total_sales_data) = NumFiles + 1
        /\ \A k \in 1..NumFiles :
              /\ total_sales_data[k][1] = SalesFileLabel(k)
              /\ total_sales_data[k][2] = ExpectedTotal(product_catalogue, sales_data_list[k])
        /\ total_sales_data[NumFiles + 1][1] = TotalLabel

\* two collections of different totals, so that their order shows
C4_Witness ==
    /\ Returned
    /\ NumFiles = 2
    /\ Len(total_sales_data) = 3
    /\ total_sales_data[1][2] # total_sales_data[2][2]
    /\ total_sales_data[1][1] = "Sales File 1"
    /\ total_sales_data[2][1] = "Sales File 2"

\* no price of the catalogue and no Quantity of a recognized record is negative
NothingNegative ==
    /\ \A i \in DOMAIN product_catalogue : product_catalogue[i]["price"] >= 0
    /\ \A k \in DOMAIN sales_data_list : \A i \in DOMAIN sales_data_list[k] :
          Recognized(product_catalogue, sales_data_list[k][i])
              => QuantityOf(sales_data_list[k][i]) >= 0

\* C7 as claimed: every value of the returned mapping is non-negative, for
\* every catalogue and every sequence of collections.
C7_TotalsNonNegative ==
    Returned => \A i \in DOMAIN total_sales_data : total_sales_data[i][2] >= 0

\* C7 amended: every value of the returned mapping is non-negative whenever no
\* catalogue price and no Quantity of a recognized record is negative.
C7_TotalsNonNegativeIfInputsAre ==
    (Returned /\ NothingNegative) =>
        \A i \in DOMAIN total_sales_data : total_sales_data[i][2] >= 0

\* non-negative inputs gave a positive total
C7_Witness ==
    /\ Returned
    /\ NothingNegative
    /\ NumFiles = 2
    /\ \A i \in DOMAIN total_sales_data : total_sales_data[i][2] > 0

\* C9: when several catalogue entries have one title, every sale of that title
\* is priced at the last such entry: the totals are those of the catalogue
\* without its shadowed entries, and each is the sum at the last prices.
C9_LastDuplicatePriceWins ==
    Returned =>
        /\ total_sales_data =
              compute_total_sales(LastEntriesOnly(product_catalogue), sales_data_list).ret
        /\ HasFileTotals
        /\ \A k \in 1..NumFiles :
              FileTotal(k) = ExpectedTotal(LastEntriesOnly(product_catalogue),
                                           sales_data_list[k])

\* a title with two prices has been sold, in two collections
C9_Witness ==
    /\ Returned
    /\ Len(product_catalogue) = 2
    /\ product_catalogue[1]["title"] = product_catalogue[2]["title"]
    /\ product_catalogue[1]["price"] # product_catalogue[2]["price"]
    /\ NumFiles = 2
    /\ \A k \in 1..2 : \E i \in DOMAIN sales_data_list[k] :
          /\ Recognized(product_catalogue, sales_data_list[k][i])
          /\ QuantityOf(sales_data_list[k][i]) # 0
    /\ HasFileTotals
    /\ FileTotal(1) = product_catalogue[2]["price"] * 2
-----------------------------------------------------------------------------
(* Successive calls of generate_price_catalogue on one cache path, the     *)
(* product list file changing between them                                  *)

InitCatalogue ==
    /\ productFile \in FilesOf(ProductObjects, MaxProducts)
    /\ cacheFile \in FilesOf(ProductObjects, MaxProducts)
    /\ salesFiles = <<>>
    /\ resultsFile = NoFile
    /\ argc = 1
    /\ product_catalogue = <<>>
    /\ sales_data_list = <<>>
    /\ total_sales_data = <<>>
    /\ warnings = <<>>
    /\ raised = FALSE
    /\ productListRead = FALSE
    /\ exitStatus = -1
    /\ calls = 0

GenerateCatalogue ==
    /\ calls < MaxCalls
    /\ LET g == generate_price_catalogue(productFile, cacheFile)
       IN  /\ product_catalogue' = g.ret
           /\ cacheFile' = g.cache
           /\ productListRead' = g.read
    /\ calls' = calls + 1
    /\ UNCHANGED <<productFile, salesFiles, resultsFile, argc, sales_data_list,
                   total_sales_data, warnings, raised, exitStatus>>

\* the user replaces, creates or removes the product list file
EditProductList ==
    /\ \E f \in FilesOf(ProductObjects, MaxProducts) :
          /\ f # productFile
          /\ productFile' = f
    /\ UNCHANGED <<salesFiles, cacheFile, resultsFile, argc, product_catalogue,
                   sales_data_list, total_sales_data, warnings, raised,
                   productListRead, exitStatus, calls>>

NextCatalogue == GenerateCatalogue \/ EditProductList

SpecCatalogue == InitCatalogue /\ [][NextCatalogue]_vars

\* this step is a call of generate_price_catalogue
IsCall == calls' = calls + 1

\* the previous call started with an existing cache
PreviousCallWasCached == calls >= 1 /\ ~productListRead

\* C5: a call that finds a file at the cache path returns what that file
\* parses to (the empty list when it does not parse), whatever the product
\* list file holds and without loading it, and leaves the cache file as it
\* was; so a call that follows a call which also found the cache returns the
\* same catalogue again.
C5_CacheIsReturnedUnmodified ==
    [][ (IsCall /\ cacheFile.exists) =>
          /\ product_catalogue'
               = (IF cacheFile.valid THEN ParseArray(cacheFile.data) ELSE <<>>)
          /\ cacheFile' = cacheFile
          /\ ~productListRead'
          /\ PreviousCallWasCached => product_catalogue' = product_catalogue ]_vars

\* the second call on a cache whose entries carry a further field, with a
\* product list that would have given another catalogue
C5_Witness ==
    /\ calls = 2
    /\ ~productListRead
    /\ cacheFile.exists /\ cacheFile.valid
    /\ product_catalogue = ParseArray(cacheFile.data)
    /\ \E i \in DOMAIN product_catalogue : "stock" \in DOMAIN product_catalogue[i]
    /\ productFile.exists /\ productFile.valid
    /\ Len(productFile.data) = 2
    /\ Len(product_catalogue) = 1

\* the call starts without a cache and with a product list file that parses
ColdCall == IsCall /\ ~cacheFile.exists /\ productFile.exists /\ productFile.valid

\* the returned list has one entry per product, in order, each with just the
\* title and the price of its product
ReturnsProjection ==
    LET product_list == ParseArray(productFile.data)
    IN  /\ Len(product_catalogue') = Len(product_list)
        /\ \A i \in DOMAIN product_list :
              /\ DOMAIN product_catalogue'[i] = {"title", "price"}
              /\ product_catalogue'[i]["title"] = product_list[i]["title"]
              /\ product_catalogue'[i]["price"] = product_list[i]["price"]

\* the call has left a cache file that parses to the returned list
CacheHoldsReturned ==
    /\ cacheFile'.exists
    /\ cacheFile'.valid
    /\ ParseArray(cacheFile'.data) = product_catalogue'

\* C6 as claimed: without a cache, for every well-formed product list, the
\* call returns one entry per product, in order, title and price only, and
\* the cache file it wrote holds exactly the returned catalogue.
C6_ColdCallDerivesAndCaches ==
    [][ ColdCall => (ReturnsProjection /\ CacheHoldsReturned) ]_vars

\* C6 amended: without a cache, for every well-formed product list, the call
\* returns one entry per product, in order, title and price only; when the
\* list is not empty the cache file it wrote holds exactly the returned
\* catalogue, and when the list is empty no cache file is written.
C6_ColdCallDerivesAndCachesNonEmpty ==
    [][ ColdCall =>
          /\ ReturnsProjection
          /\ productFile.data # <<>> => CacheHoldsReturned
          /\ productFile.data = <<>> => cacheFile' = cacheFile ]_vars

\* a first call without a cache has derived two entries from products of
\* which one had a further field, and the cache holds them
C6_Witness ==
    /\ calls = 1
    /\ productListRead
    /\ productFile.exists /\ productFile.valid
    /\ Len(productFile.data) = 2
    /\ \E i \in 1..2 : "stock" \in DOMAIN ParseObject(productFile.data[i])
    /\ Len(product_catalogue) = 2
    /\ \A i \in 1..2 : DOMAIN product_catalogue[i] = {"title", "price"}
    /\ cacheFile.exists /\ cacheFile.valid
    /\ ParseArray(cacheFile.data) = product_catalogue
-----------------------------------------------------------------------------
(* save_results and main *)

\* f"{value:.2f}" of a whole amount
TwoDecimals(value) == ToString(value) \o ".00"

\* lines 94-100: one line per entry of the mapping, in its order, then the
\* execution time line (the elapsed time itself is not modelled)
result_text(total_sales) ==
    [i \in DOMAIN total_sales |->
        total_sales[i][1] \o ": $" \o TwoDecimals(total_sales[i][2])]
    \o <<"Execution Time">>

\* lines 88-104: the results file after the call
save_results(total_sales) == TextFile(result_text(total_sales))

\* what a run leaves: exit status, the two files it may write, its locals
Outcome(status, cache, results, catalogue, list, totals, warned, exc, read) ==
    [ exit |-> status, cache |-> cache, results |-> results,
      product_catalogue |-> catalogue, sales_data_list |-> list,
      total_sales_data |-> totals, warnings |-> warned, raised |-> exc,
      read |-> read ]

\* a slip of lines 130-136: the loaded sales files are not checked
main_NoSalesCheck(argn, product_list_file, sales_files, catalogue_file, output_file) ==
    IF argn < 3
    THEN Outcome(1, catalogue_file, output_file, <<>>, <<>>, <<>>, <<>>, FALSE, FALSE)
    ELSE
      LET g == generate_price_catalogue(product_list_file, catalogue_file)
          list == [i \in DOMAIN sales_files |-> load_json_file(sales_files[i])]
          r == compute_total_sales(g.ret, list)
      IN  IF g.ret = <<>>
          THEN Outcome(1, g.cache, output_file, g.ret, <<>>, <<>>, <<>>, FALSE, g.read)
          ELSE IF r.raised
          THEN Outcome(1, g.cache, output_file, g.ret, list, <<>>, r.warnings, TRUE, g.read)
          ELSE Outcome(0, g.cache, save_results(r.ret), g.ret, list, r.ret,
                       r.warnings, FALSE, g.read)

\* lines 107-141.  argn is len(sys.argv); an uncaught exception ends the
\* process with status 1 like sys.exit(1).
main(argn, product_list_file, sales_files, catalogue_file, output_file) ==
    IF argn < 3
    THEN Outcome(1, catalogue_file, output_file, <<>>, <<>>, <<>>, <<>>, FALSE, FALSE)
    ELSE
      LET g == generate_price_catalogue(product_list_file, catalogue_file)
          list == [i \in DOMAIN sales_files |-> load_json_file(sales_files[i])]
          r == compute_total_sales(g.ret, list)
      IN  IF g.ret = <<>>
          THEN Outcome(1, g.cache, output_file, g.ret, <<>>, <<>>, <<>>, FALSE, g.read)
          ELSE IF \E i \in DOMAIN list : list[i] = <<>>
          THEN Outcome(1, g.cache, output_file, g.ret, list, <<>>, <<>>, FALSE, g.read)
          ELSE IF r.raised
          THEN Outcome(1, g.cache, output_file, g.ret, list, <<>>, r.warnings, TRUE, g.read)
          ELSE Outcome(0, g.cache, save_results(r.ret), g.ret, list, r.ret,
                       r.warnings, FALSE, g.read)

-----------------------------------------------------------------------------
(* Successive runs of the program in one directory *)

\* the objects of the sales files of a run: a priced product, an unknown one
RunSaleObjects ==
    { << <<"Product", "A">>, <<"Quantity", 2>> >>,
      << <<"Product", "G">>, <<"Quantity", 5>> >> }

\* what a sales path of a run can name: nothing, a file that is not JSON, an
\* empty array, an array of one sale
SalesFilePool ==
    {Missing, Invalid, JsonFile(<<>>)} \cup { JsonFile(<<o>>) : o \in RunSaleObjects }

\* a results file left by an earlier use of the directory
StaleResults == TextFile(<<"stale">>)

Init ==
    /\ productFile \in FilesOf(ProductObjects, MaxProducts)
    /\ cacheFile \in FilesOf(ProductObjects, MaxProducts)
    /\ argc \in 1..(MaxFiles + 2)
    /\ salesFiles \in [1..(IF argc < 3 THEN 0 ELSE argc - 2) -> SalesFilePool]
    /\ resultsFile \in {NoFile, StaleResults}
    /\ product_catalogue = <<>>
    /\ sales_data_list = <<>>
    /\ total_sales_data = <<>>
    /\ warnings = <<>>
    /\ raised = FALSE
    /\ productListRead = FALSE
    /\ exitStatus = -1
    /\ calls = 0

Main ==
    /\ calls < MaxCalls
    /\ LET m == main(argc, productFile, salesFiles, cacheFile, resultsFile)
       IN  /\ exitStatus' = m.exit
           /\ cacheFile' = m.cache
           /\ resultsFile' = m.results
           /\ product_catalogue' = m.product_catalogue
           /\ sales_data_list' = m.sales_data_list
           /\ total_sales_data' = m.total_sales_data
           /\ warnings' = m.warnings
           /\ raised' = m.raised
           /\ productListRead' = m.read
    /\ calls' = calls + 1
    /\ UNCHANGED <<productFile, salesFiles, argc>>

Next == Main

Spec == Init /\ [][Next]_vars

\* json.load fails on the file, or gives an empty array
LoadsEmpty(file) == ~file.exists \/ ~file.valid \/ file.data = <<>>

\* the run meets a fatal condition: too few arguments, a cache that loads
\* empty, no cache and a product list that loads empty, or a sales file, at
\* any position, that loads empty
Fatal ==
    \/ argc < 3
    \/ cacheFile.exists /\ LoadsEmpty(cacheFile)
    \/ ~cacheFile.exists /\ LoadsEmpty(productFile)
    \/ \E i \in DOMAIN salesFiles : LoadsEmpty(salesFiles[i])

\* C8 as claimed: every run that meets a fatal condition ends with a non-zero
\* exit status and neither creates nor modifies the results file or the
\* catalogue cache file.
C8_FatalRunWritesNothing ==
    [][ (IsCall /\ Fatal) =>
          /\ exitStatus' # 0
          /\ resultsFile' = resultsFile
          /\ cacheFile' = cacheFile ]_vars

\* C8 amended: every run that meets a fatal condition ends with a non-zero
\* exit status and neither creates nor modifies the results file; it leaves an
\* existing catalogue cache as it was, and writes the cache only when it
\* started without one and with a product list that loads non-empty (the run
\* then fails on a sales file, after the derived catalogue is cached).
C8_FatalRunWritesNoResults ==
    [][ (IsCall /\ Fatal) =>
          /\ exitStatus' # 0
          /\ resultsFile' = resultsFile
          /\ \/ cacheFile' = cacheFile
             \/ /\ argc >= 3
                /\ ~cacheFile.exists
                /\ ~LoadsEmpty(productFile)
                /\ \E i \in DOMAIN salesFiles : LoadsEmpty(salesFiles[i])
                /\ cacheFile'.exists /\ cacheFile'.valid
                /\ ParseArray(cacheFile'.data) = product_catalogue' ]_vars

\* a first run without a cache failed on its second sales file: status 1, the
\* stale results file untouched, the cache created
C8_Witness ==
    /\ calls = 1
    /\ exitStatus = 1
    /\ productListRead
    /\ argc = 4
    /\ ~LoadsEmpty(salesFiles[1])
    /\ salesFiles[2] = Missing
    /\ resultsFile = StaleResults
    /\ cacheFile.exists /\ cacheFile.valid
    /\ ParseArray(cacheFile.data) = product_catalogue

\* C10: once a file is at the cache path no run rewrites it; so while the
\* cache is invalid or holds an empty array every run ends with a non-zero
\* exit status, without loading the product list and without writing a
\* results file, however valid the product list and the sales files are.
C10_BadCacheStaysAndIsFatal ==
    [][ (IsCall /\ cacheFile.exists) =>
          /\ cacheFile' = cacheFile
          /\ LoadsEmpty(cacheFile) =>
                /\ exitStatus' # 0
                /\ ~productListRead'
                /\ resultsFile' = resultsFile ]_vars

\* the second run on an invalid cache, with good arguments, a good product
\* list and good sales files, has failed again and written nothing
C10_Witness ==
    /\ calls = 2
    /\ exitStatus = 1
    /\ cacheFile = Invalid
    /\ argc = 4
    /\ ~LoadsEmpty(productFile)
    /\ \A i \in DOMAIN salesFiles : ~LoadsEmpty(salesFiles[i])
    /\ ~productListRead
    /\ resultsFile = NoFile
====
